---------------------------- MODULE Spec2Model ----------------------------
(***************************************************************************)
(* Model of motor_busca_inteligente_v6.py: the text pipeline (normalizer,  *)
(* corrections, abbreviations, keywords, score), Config.load, and the      *)
(* MotorBusca engine (learned mappings, file index, buscar, the confidence *)
(* classification of processar_lista).                                     *)
(*                                                                         *)
(* A Python str is a sequence of characters; a character is a one-letter   *)
(* TLA+ string.  Three accented letters are written base letter plus mark: *)
(* "a~" is U+00E3, "A~" is U+00C3, "e'" is U+00E9, "c," is U+00E7.         *)
(* A float score is kept in hundredths (100.0 is 10000): scores are        *)
(* rounded to two decimals by the code.                                    *)
(***************************************************************************)
EXTENDS Integers, Sequences, FiniteSets, TLC

VARIABLES
    entrada,            \* pure-function specifications: the arguments
    saida,              \* pure-function specifications: the results
    pc,                 \* pure-function specifications: position
    arq_config,         \* CONFIG_FILE on disk
    disco,              \* MAPEAMENTOS_FILE on disk
    config,             \* self.config
    arquivos,           \* self.arquivos
    arquivos_completos, \* self.arquivos_completos
    mapeamentos,        \* self.mapeamentos
    op,                 \* the last call made on the engine and its arguments
    retorno,            \* what the last call returned
    excecao,            \* the exception the last call raised, or "nenhuma"
    registro,           \* what the last call logged
    pontuados,          \* calls of calcular_pontuacao made by the last buscar
    gravado             \* history of the last adicionar_mapeamento

puroVars == <<entrada, saida, pc>>
motorVars == <<arq_config, disco, config, arquivos, arquivos_completos,
               mapeamentos, op, retorno, excecao, registro, pontuados,
               gravado>>
vars == <<entrada, saida, pc, arq_config, disco, config, arquivos,
          arquivos_completos, mapeamentos, op, retorno, excecao, registro,
          pontuados, gravado>>

-----------------------------------------------------------------------------
(* Characters and str helpers *)

Minusculas == {"a","b","c","d","e","f","g","h","i","j","k","l","m",
               "n","o","p","q","r","s","t","u","v","w","x","y","z"}
Digitos == {"0","1","2","3","4","5","6","7","8","9"}
\* the characters of the model that the regex class \s matches
Espacos == {" ", "\t"}

\* the lowercase form of each uppercase character
PARA_MINUSCULA ==
    ("A" :> "a") @@ ("B" :> "b") @@ ("C" :> "c") @@ ("D" :> "d") @@ ("E" :> "e") @@
    ("F" :> "f") @@ ("G" :> "g") @@ ("H" :> "h") @@ ("I" :> "i") @@ ("J" :> "j") @@
    ("K" :> "k") @@ ("L" :> "l") @@ ("M" :> "m") @@ ("N" :> "n") @@ ("O" :> "o") @@
    ("P" :> "p") @@ ("Q" :> "q") @@ ("R" :> "r") @@ ("S" :> "s") @@ ("T" :> "t") @@
    ("U" :> "u") @@ ("V" :> "v") @@ ("W" :> "w") @@ ("X" :> "x") @@ ("Y" :> "y") @@
    ("Z" :> "z") @@ ("A~" :> "a~")

\* str.lower() on one character
LowerChar(c) == IF c \in DOMAIN PARA_MINUSCULA THEN PARA_MINUSCULA[c] ELSE c

lower(s) == [i \in 1..Len(s) |-> LowerChar(s[i])]

\* NFKD decomposition with the combining marks dropped, on one character
SemAcento(c) ==
    CASE c = "a~" -> "a"
      [] c = "A~" -> "A"
      [] c = "e'" -> "e"
      [] c = "c," -> "c"
      [] OTHER -> c

remover_acentos(texto) == [i \in 1..Len(texto) |-> SemAcento(texto[i])]

\* str.replace(de, para) for a one-character pattern
Replace(s, de, para) == [i \in 1..Len(s) |-> IF s[i] = de THEN para ELSE s[i]]

RECURSIVE Saltar(_, _, _)
\* the first index >= i of s whose character is outside classe (Len(s)+1 if none)
Saltar(s, i, classe) ==
    IF i <= Len(s) /\ s[i] \in classe THEN Saltar(s, i + 1, classe) ELSE i

TerminaCom(s, suf) ==
    /\ Len(suf) <= Len(s)
    /\ SubSeq(s, Len(s) - Len(suf) + 1, Len(s)) = suf

RECURSIVE Split(_)
\* str.split(): the maximal runs of non-whitespace characters
Split(s) ==
    LET ini == Saltar(s, 1, Espacos)
    IN  IF ini > Len(s) THEN <<>>
        ELSE LET fim == CHOOSE j \in ini..Len(s) :
                            /\ \A k \in ini..j : s[k] \notin Espacos
                            /\ (j = Len(s) \/ s[j + 1] \in Espacos)
             IN  <<SubSeq(s, ini, fim)>> \o Split(SubSeq(s, fim + 1, Len(s)))

RECURSIVE Join(_)
\* " ".join(tokens)
Join(tokens) ==
    IF tokens = <<>> THEN <<>>
    ELSE IF Len(tokens) = 1 THEN tokens[1]
    ELSE tokens[1] \o <<" ">> \o Join(Tail(tokens))

\* set(seq)
Elementos(seq) == {seq[i] : i \in 1..Len(seq)}

\* the Python test "sub in s" on two str
Contem(s, sub) ==
    \E i \in 1..(Len(s) - Len(sub) + 1) : SubSeq(s, i, i + Len(sub) - 1) = sub

-----------------------------------------------------------------------------
(* normalizar_texto *)

EXTENSOES_REGEX == << <<"p","n","g">>, <<"j","p","g">>, <<"j","p","e","g">>,
                      <<"g","i","f">>, <<"b","m","p">>, <<"w","e","b","p">> >>

\* re.sub(r"\.(png|jpg|jpeg|gif|bmp|webp)$", "", texto)
SubExtensao(texto) ==
    LET casa(i) == TerminaCom(texto, <<".">> \o EXTENSOES_REGEX[i])
    IN  IF \E i \in 1..Len(EXTENSOES_REGEX) : casa(i)
        THEN LET i == CHOOSE i \in 1..Len(EXTENSOES_REGEX) : casa(i)
             IN  SubSeq(texto, 1, Len(texto) - Len(EXTENSOES_REGEX[i]) - 1)
        ELSE texto

\* whether texto[i..] as a whole matches \s+\d+[,.]?\d*\s*(kg)?\s*
\* (the character classes are disjoint, so the greedy scan decides it)
CasaQuantidade(texto, i) ==
    LET n == Len(texto)
        a == Saltar(texto, i, Espacos)                      \* \s+
        b == Saltar(texto, a, Digitos)                      \* \d+
        c == IF b <= n /\ texto[b] \in {",", "."} THEN b + 1 ELSE b
        d == Saltar(texto, c, Digitos)                      \* \d*
        e == Saltar(texto, d, Espacos)                      \* \s*
        f == IF e + 1 <= n /\ texto[e] = "k" /\ texto[e + 1] = "g"
             THEN e + 2 ELSE e                              \* (kg)?
        g == Saltar(texto, f, Espacos)                      \* \s*
    IN  /\ a > i
        /\ b > a
        /\ g = n + 1

\* re.sub(r"\s+\d+[,.]?\d*\s*(kg)?\s*$", "", texto): the match is the
\* leftmost suffix that matches
SubQuantidade(texto) ==
    LET casam == {i \in 1..Len(texto) : CasaQuantidade(texto, i)}
    IN  IF casam = {} THEN texto
        ELSE LET i == CHOOSE i \in casam : \A j \in casam : i <= j
             IN  SubSeq(texto, 1, i - 1)

\* re.sub(r"[^a-z0-9\s]", " ", texto)
SubNaoAlfanumerico(texto) ==
    [i \in 1..Len(texto) |->
        IF texto[i] \in Minusculas \cup Digitos \cup Espacos
        THEN texto[i] ELSE " "]

\* re.sub(r"\s+", " ", texto).strip()
ColapsarEspacos(texto) == Join(Split(texto))

normalizar_texto(texto) ==
    IF texto = <<>> THEN <<>>
    ELSE LET t1 == remover_acentos(lower(texto))
             t2 == Replace(Replace(Replace(t1, "_", " "), "-", " "), ".", " ")
             t3 == SubExtensao(t2)
             t4 == SubQuantidade(t3)
             t5 == SubNaoAlfanumerico(t4)
         IN  ColapsarEspacos(t5)

-----------------------------------------------------------------------------
(* The dictionaries *)

\* ABREVIACOES: abbreviation -> word
ABREVIACOES ==
    {<< <<"l","i","n","g">>, <<"l","i","n","g","u","i","c","a">> >>,
     << <<"b","o","v">>, <<"b","o","v","i","n","o">> >>,
     << <<"s","u","i">>, <<"s","u","i","n","o">> >>,
     << <<"f","g","o">>, <<"f","r","a","n","g","o">> >>,
     << <<"t","e","m","p">>, <<"t","e","m","p","e","r","a","d","o">> >>,
     << <<"c","o","n","g">>, <<"c","o","n","g","e","l","a","d","o">> >>,
     << <<"a","m","a","c">>, <<"a","m","a","c","i","a","n","t","e">> >>,
     << <<"b","i","s","c">>, <<"b","i","s","c","o","i","t","o">> >>,
     << <<"r","e","f","r","i">>, <<"r","e","f","r","i","g","e","r","a","n","t","e">> >>,
     << <<"p","c","t">>, <<"p","a","c","o","t","e">> >>,
     << <<"c","x">>, <<"c","a","i","x","a">> >>,
     << <<"u","n">>, <<"u","n","i","d","a","d","e">> >>}

\* CORRECOES, in insertion order: misspelling -> correction
CORRECOES ==
    << << <<"p","e","p","e","i","n","o">>, <<"p","e","p","i","n","o">> >>,
      << <<"a","r","r","r","o","z">>, <<"a","r","r","o","z">> >>,
      << <<"s","m","i","s","r","n","o","f">>, <<"s","m","i","r","n","o","f","f">> >>,
      << <<"e","s","p","a","g","u","t","e">>, <<"e","s","p","a","g","u","e","t","e">> >>,
      << <<"s","a","l","g","a","d","i","m","h","o">>, <<"s","a","l","g","a","d","i","n","h","o">> >> >>

PALAVRAS_DISTINTIVAS ==
    {<<"s","e","m">>,
     <<"c","o","m">>,
     <<"i","n","t","e","i","r","o">>,
     <<"i","n","t","e","i","r","a">>,
     <<"t","e","m","p","e","r","a","d","o">>,
     <<"c","o","n","g","e","l","a","d","o">>,
     <<"m","i","g","n","o","n">>,
     <<"s","a","d","i","a">>,
     <<"s","e","a","r","a">>}

STOP_WORDS ==
    {<<"d","e">>,
     <<"d","a">>,
     <<"d","o">>,
     <<"d","o","s">>,
     <<"d","a","s">>,
     <<"e">>,
     <<"a">>,
     <<"o">>,
     <<"a","s">>,
     <<"o","s">>,
     <<"k","g">>,
     <<"g">>,
     <<"m","l">>,
     <<"l">>,
     <<"u","n","i","d","a","d","e">>}

-----------------------------------------------------------------------------
(* difflib.SequenceMatcher(None, a, b), for inputs shorter than 200        *)
(* characters (no autojunk) and no junk predicate                          *)

RECURSIVE PrefixoComum(_, _, _, _, _, _)
\* the length of the longest common prefix of a[i..ahi-1] and b[j..bhi-1]
PrefixoComum(a, i, ahi, b, j, bhi) ==
    IF i < ahi /\ j < bhi /\ a[i] = b[j]
    THEN 1 + PrefixoComum(a, i + 1, ahi, b, j + 1, bhi)
    ELSE 0

Maximo(S) == CHOOSE x \in S : \A y \in S : y <= x
Minimo(S) == CHOOSE x \in S : \A y \in S : x <= y

\* find_longest_match(alo, ahi, blo, bhi): <<i, j, k>>, the longest block,
\* of those the one starting earliest in a, of those the earliest in b
find_longest_match(a, alo, ahi, b, blo, bhi) ==
    LET k == Maximo({0} \cup {PrefixoComum(a, i, ahi, b, j, bhi) :
                                i \in alo..(ahi - 1), j \in blo..(bhi - 1)})
    IN  IF k = 0 THEN <<alo, blo, 0>>
        ELSE LET i == Minimo({x \in alo..(ahi - 1) :
                        \E y \in blo..(bhi - 1) :
                            PrefixoComum(a, x, ahi, b, y, bhi) = k})
                 j == Minimo({y \in blo..(bhi - 1) :
                            PrefixoComum(a, i, ahi, b, y, bhi) = k})
             IN  <<i, j, k>>

RECURSIVE TamanhoBlocos(_, _, _, _, _, _)
\* get_matching_blocks(): the summed size of the matching blocks
TamanhoBlocos(a, alo, ahi, b, blo, bhi) ==
    IF alo >= ahi \/ blo >= bhi THEN 0
    ELSE LET m == find_longest_match(a, alo, ahi, b, blo, bhi)
         IN  IF m[3] = 0 THEN 0
             ELSE m[3] + TamanhoBlocos(a, alo, m[1], b, blo, m[2])
                       + TamanhoBlocos(a, m[1] + m[3], ahi, b, m[2] + m[3], bhi)

\* ratio() as the fraction <<2*M, T>>; 1.0 when both are empty
ratio(a, b) ==
    IF Len(a) + Len(b) = 0 THEN <<1, 1>>
    ELSE <<2 * TamanhoBlocos(a, 1, Len(a) + 1, b, 1, Len(b) + 1), Len(a) + Len(b)>>

\* comparisons of fractions with positive denominators; T < 50 keeps the
\* float comparison with 0.86 and 0.82 exact
Maior(r, s) == r[1] * s[2] > s[1] * r[2]
MaiorIgual(r, s) == r[1] * s[2] >= s[1] * r[2]

-----------------------------------------------------------------------------
(* aplicar_correcoes, expandir_abreviacoes, preprocessar *)

LIMIAR_CORRECAO == <<86, 100>>
LIMIAR_FUZZY == <<82, 100>>

\* the fuzzy fallback of aplicar_correcoes: rs[i] is the ratio of the token
\* and the i-th misspelling; the first entry of the highest ratio above the
\* threshold wins
CorrecaoAproximada(token, rs) ==
    LET bons == {i \in 1..Len(CORRECOES) : Maior(rs[i], LIMIAR_CORRECAO)}
    IN  IF bons = {} THEN token
        ELSE CORRECOES[CHOOSE i \in bons :
                          /\ \A j \in bons : MaiorIgual(rs[i], rs[j])
                          /\ \A j \in bons : j < i => Maior(rs[i], rs[j])][2]

\* one token of aplicar_correcoes
CorrigirToken(token) ==
    IF \E i \in 1..Len(CORRECOES) : CORRECOES[i][1] = token
    THEN CORRECOES[CHOOSE i \in 1..Len(CORRECOES) : CORRECOES[i][1] = token][2]
    ELSE CorrecaoAproximada(token,
            [i \in 1..Len(CORRECOES) |-> ratio(token, CORRECOES[i][1])])

aplicar_correcoes(texto) ==
    LET tokens == Split(texto)
    IN  Join([i \in 1..Len(tokens) |-> CorrigirToken(tokens[i])])

ExpandirToken(token) ==
    IF \E par \in ABREVIACOES : par[1] = token
    THEN (CHOOSE par \in ABREVIACOES : par[1] = token)[2]
    ELSE token

expandir_abreviacoes(texto) ==
    LET tokens == Split(texto)
    IN  Join([i \in 1..Len(tokens) |-> ExpandirToken(tokens[i])])

preprocessar(texto) ==
    expandir_abreviacoes(aplicar_correcoes(normalizar_texto(texto)))

-----------------------------------------------------------------------------
(* extrair_palavras_chave, calcular_pontuacao *)

\* str.isdigit()
isdigit(p) == Len(p) > 0 /\ \A i \in 1..Len(p) : p[i] \in Digitos

extrair_palavras_chave(texto) ==
    {p \in Elementos(Split(texto)) :
        /\ (p \in PALAVRAS_DISTINTIVAS \/ p \notin STOP_WORDS)
        /\ (Len(p) > 1 \/ isdigit(p))}

\* round(n / d, 2) in hundredths, from the exact value, ties to even
Arredondar(n, d) ==
    LET q == (100 * n) \div d
        r == (100 * n) % d
    IN  IF 2 * r > d \/ (2 * r = d /\ q % 2 = 1) THEN q + 1 ELSE q

PontuacaoMaxima == 10000

\* the last lines of calcular_pontuacao: x is (len(comuns) + fuzzy_hits *
\* 0.75) * 4, sequencia the ratio of the two preprocessed strings, bonus is
\* bonus * 100; the score is the fraction num / den
PontuacaoFinal(x, nb, na, sequencia, bonus, iguais, contida) ==
    LET extra == IF contida THEN 12 ELSE 0
        den == 4 * nb * na * sequencia[2]
        num == 45 * x * na * sequencia[2]
               + 20 * x * nb * sequencia[2]
               + 30 * sequencia[1] * 4 * nb * na
               + (bonus + extra) * den
    IN  IF iguais THEN PontuacaoMaxima
        ELSE IF num >= 100 * den THEN PontuacaoMaxima
        ELSE Arredondar(num, den)

\* calcular_pontuacao once both keyword sets are known to be non-empty
PontuacaoNaoVazia(busca, arquivo, palavras_busca, palavras_arquivo) ==
    LET comuns == palavras_busca \cap palavras_arquivo
        fuzzy_hits == Cardinality(
            {pb \in palavras_busca \ comuns :
                \E pa \in palavras_arquivo \ comuns :
                    MaiorIgual(ratio(pb, pa), LIMIAR_FUZZY)})
    IN  PontuacaoFinal(4 * Cardinality(comuns) + 3 * fuzzy_hits,
                       Cardinality(palavras_busca),
                       Cardinality(palavras_arquivo),
                       ratio(busca, arquivo),
                       4 * Cardinality(comuns \cap PALAVRAS_DISTINTIVAS),
                       busca = arquivo,
                       palavras_busca \subseteq palavras_arquivo)

\* the equality of the two strings tested before the empty keyword sets
PontuacaoIguaisPrimeiro(busca, arquivo, palavras_busca, palavras_arquivo) ==
    IF busca = arquivo THEN PontuacaoMaxima
    ELSE IF palavras_busca = {} \/ palavras_arquivo = {} THEN 0
    ELSE PontuacaoNaoVazia(busca, arquivo, palavras_busca, palavras_arquivo)

\* calcular_pontuacao from the two preprocessed strings and their keywords
PontuacaoPalavras(busca, arquivo, palavras_busca, palavras_arquivo) ==
    IF palavras_busca = {} \/ palavras_arquivo = {} THEN 0
    ELSE PontuacaoNaoVazia(busca, arquivo, palavras_busca, palavras_arquivo)

PontuacaoPreprocessados(busca, arquivo) ==
    PontuacaoPalavras(busca, arquivo, extrair_palavras_chave(busca),
                      extrair_palavras_chave(arquivo))

calcular_pontuacao(texto_busca, texto_arquivo) ==
    PontuacaoPreprocessados(preprocessar(texto_busca), preprocessar(texto_arquivo))

-----------------------------------------------------------------------------
(* Config *)

CAMPOS == {"pasta_imagens", "confianca_alta", "confianca_media",
           "remove_bg_key", "pastas_extras"}

\* Config(): the dataclass defaults
ConfigPadrao ==
    [pasta_imagens |-> <<"C",":","\\","U","s","e","r","s","\\","P","u","b","l","i","c","\\","P","i","c","t","u","r","e","s">>,
     confianca_alta |-> 80,
     confianca_media |-> 55,
     remove_bg_key |-> <<>>,
     pastas_extras |-> <<>>]

\* Config.load(path).  The file is [estado |-> "ausente"], [estado |->
\* "malformado"] (not JSON) or [estado |-> "json", ...]: of tipo "lista"
\* (valid JSON that is no object) or of tipo "objeto" with membros, a
\* function from member names to values.  Gives the Config and whether a
\* warning was logged.
Config_load(arq) ==
    IF arq.estado = "ausente" THEN [config |-> ConfigPadrao, aviso |-> FALSE]
    ELSE IF arq.estado = "malformado" THEN [config |-> ConfigPadrao, aviso |-> TRUE]
    ELSE \* {**asdict(cls()), **data} raises on a non-mapping, cls(**d)
         \* raises on a keyword that is no field
         IF arq.tipo # "objeto" \/ ~(DOMAIN arq.membros \subseteq CAMPOS)
         THEN [config |-> ConfigPadrao, aviso |-> TRUE]
         ELSE [config |-> [f \in CAMPOS |->
                              IF f \in DOMAIN arq.membros THEN arq.membros[f]
                              ELSE ConfigPadrao[f]],
               aviso |-> FALSE]

-----------------------------------------------------------------------------
(* The confidence classification of processar_lista *)

\* the high threshold compared with > in place of >=
ClassificarEstrito(pontuacao, cfg) ==
    IF pontuacao > 100 * cfg.confianca_alta THEN "OK"
    ELSE IF pontuacao >= 100 * cfg.confianca_media THEN "REVISAR"
    ELSE IF pontuacao > 0 THEN "VERIFICAR"
    ELSE "NAO_ENCONTRADO"

Classificar(pontuacao, cfg) ==
    IF pontuacao >= 100 * cfg.confianca_alta THEN "OK"
    ELSE IF pontuacao >= 100 * cfg.confianca_media THEN "REVISAR"
    ELSE IF pontuacao > 0 THEN "VERIFICAR"
    ELSE "NAO_ENCONTRADO"

-----------------------------------------------------------------------------
(* MotorBusca: the file index *)

SEPARADORES == {"/", "\\"}

\* the index of the last character of s in classe, 0 if none
UltimoEm(s, classe) ==
    LET pos == {i \in 1..Len(s) : s[i] \in classe}
    IN  IF pos = {} THEN 0 ELSE Maximo(pos)

\* Path(p).name
NomePasta(p) == SubSeq(p, UltimoEm(p, SEPARADORES) + 1, Len(p))

\* the suffix of a name: from its last period, unless that is its first or
\* last character
SufixoNome(nome) ==
    IF 1 < UltimoEm(nome, {"."}) /\ UltimoEm(nome, {"."}) < Len(nome)
    THEN SubSeq(nome, UltimoEm(nome, {"."}), Len(nome))
    ELSE <<>>

\* Path(p).suffix
Sufixo(p) == SufixoNome(NomePasta(p))

\* EXTENSOES_IMAGEM
EXTENSOES_IMAGEM ==
    {<<".","p","n","g">>, <<".","j","p","g">>, <<".","j","p","e","g">>, <<".","g","i","f">>, <<".","b","m","p">>, <<".","w","e","b","p">>}

\* _iterar_pastas()
iterar_pastas(cfg) == <<cfg.pasta_imagens>> \o cfg.pastas_extras

\* f"{pasta.name}/{relativo}".replace("\\", "/")
Chave(pasta, relativo) == Replace(NomePasta(pasta) \o <<"/">> \o relativo, "\\", "/")

\* one directory of carregar_imagens: the <<chave, caminho>> of each image
\* file, in the order rglob yields them.  dir is [existe |-> FALSE] or
\* [existe |-> TRUE, entradas |-> <<[rel, is_file], ...>>]; every entry is
\* under pasta, so relative_to gives rel; caminho is <<pasta, rel>>
IndexarPasta(pasta, dir) ==
    IF ~dir.existe THEN <<>>
    ELSE LET imagens == SelectSeq(dir.entradas,
                 LAMBDA e : e.is_file /\ lower(Sufixo(e.rel)) \in EXTENSOES_IMAGEM)
         IN  [i \in 1..Len(imagens) |->
                 <<Chave(pasta, imagens[i].rel), <<pasta, imagens[i].rel>> >>]

RECURSIVE Indexar(_, _)
Indexar(pastas, fs) ==
    IF pastas = <<>> THEN <<>>
    ELSE IndexarPasta(Head(pastas), fs[Head(pastas)]) \o Indexar(Tail(pastas), fs)

\* self.arquivos and self.arquivos_completos from the appended pairs: the
\* list keeps every append, the dict the last value of each key
IndiceDe(pares) ==
    [arquivos |-> [i \in 1..Len(pares) |-> pares[i][1]],
     arquivos_completos |->
        [k \in {pares[i][1] : i \in 1..Len(pares)} |->
            pares[Maximo({i \in 1..Len(pares) : pares[i][1] = k})][2]]]

\* carregar_imagens(): both collections are cleared, then filled; the count
\* returned is len(self.arquivos)
carregar_imagens(cfg, fs) == IndiceDe(Indexar(iterar_pastas(cfg), fs))

-----------------------------------------------------------------------------
(* The inputs of the engine in this model *)

MaxTopN == 2

PASTA_A == <<"/","a","/","i","m">>
PASTA_B == <<"/","b","/","i","m">>
PASTA_C == <<"/","a","/","e","x">>

\* CONFIG_FILE: one image root and one extra directory, which has the same
\* folder name, is the root itself, or has another name
ConfigsMotor ==
    {[estado |-> "json", tipo |-> "objeto",
      membros |-> [f \in {"pasta_imagens", "pastas_extras"} |->
                      IF f = "pasta_imagens" THEN PASTA_A ELSE <<extra>>]] :
        extra \in {PASTA_A, PASTA_B, PASTA_C}}

IMAGEM_1 == [rel |-> <<"a","r","r","o","z",".","p","n","g">>, is_file |-> TRUE]
IMAGEM_2 == [rel |-> <<"s","\\","a","r","r","o","z",".","J","P","G">>, is_file |-> TRUE]
NAO_IMAGEM == [rel |-> <<"n","o","t","a",".","t","x","t">>, is_file |-> TRUE]
SUBPASTA == [rel |-> <<"s",".","p","n","g">>, is_file |-> FALSE]

\* what rglob("*") may yield in a directory: a text file, a subdirectory
\* and any of the two images
ListagensPasta ==
    {[existe |-> FALSE]} \cup
    {[existe |-> TRUE, entradas |-> e] :
        e \in {<<NAO_IMAGEM, SUBPASTA>>,
               <<NAO_IMAGEM, IMAGEM_1, SUBPASTA>>,
               <<NAO_IMAGEM, IMAGEM_2, SUBPASTA>>,
               <<IMAGEM_1, NAO_IMAGEM, SUBPASTA, IMAGEM_2>>}}

TermosAdd == {<<"A","r","r","o","z"," ","5","k","g">>}
ChavesAdd == {<<"i","m","/","a","r","r","o","z",".","p","n","g">>, <<"i","m","\\","a","r","r","o","z",".","p","n","g">>}
TermosBusca ==
    {<<"a","r","r","o","z">>,
     <<"d","e">>,
     <<"l","i","n","g">>,
     <<"i","m"," ","a","r","r","o","z">>}

\* the keys carregar_imagens can build from these directories and images
ChavesIndice ==
    {Chave(p, e.rel) : p \in {PASTA_A, PASTA_B, PASTA_C}, e \in {IMAGEM_1, IMAGEM_2}}

\* preprocessar and calcular_pontuacao on the terms and keys above, computed
\* once (@@ makes the table an explicit function)
PreprocessarTabela ==
    [t \in TermosAdd \cup TermosBusca |-> preprocessar(t)] @@ <<>>
PontuacaoTabela ==
    [par \in TermosBusca \X ChavesIndice |->
        calcular_pontuacao(par[1], par[2])] @@ <<>>

Preprocessado(t) ==
    IF t \in DOMAIN PreprocessarTabela THEN PreprocessarTabela[t] ELSE preprocessar(t)
Pontuacao(t, a) ==
    IF <<t, a>> \in DOMAIN PontuacaoTabela THEN PontuacaoTabela[<<t, a>>]
    ELSE calcular_pontuacao(t, a)

-----------------------------------------------------------------------------
(* MotorBusca: learned mappings *)

\* an empty dict
DictVazio == [k \in {} |-> <<>>]

\* d[k] = v
DictSet(d, k, v) == [x \in DOMAIN d \cup {k} |-> IF x = k THEN v ELSE d[x]]

\* the characters of one character inside a JSON string, as json.dumps with
\* ensure_ascii=False writes it
EscaparChar(c) ==
    CASE c = "\"" -> <<"\\", "\"">>
      [] c = "\\" -> <<"\\", "\\">>
      [] c = "\t" -> <<"\\", "t">>
      [] OTHER -> <<c>>

RECURSIVE Escapar(_)
Escapar(s) == IF s = <<>> THEN <<>> ELSE EscaparChar(Head(s)) \o Escapar(Tail(s))

RECURSIVE Desescapar(_)
\* the str that json.loads reads from the inside of a JSON string
Desescapar(s) ==
    IF s = <<>> THEN <<>>
    ELSE IF Head(s) = "\\" /\ Len(s) >= 2
         THEN <<IF s[2] = "t" THEN "\t" ELSE s[2]>> \o Desescapar(SubSeq(s, 3, Len(s)))
         ELSE <<Head(s)>> \o Desescapar(Tail(s))

\* json.dumps(self.mapeamentos, ...): the members of the JSON object, each
\* <<name, value>> as written between the quotes
dumps(d) == {<<Escapar(k), Escapar(d[k])>> : k \in DOMAIN d}

\* json.loads of such an object
loads(membros) ==
    [k \in {Desescapar(m[1]) : m \in membros} |->
        Desescapar((CHOOSE m \in membros : Desescapar(m[1]) = k)[2])]

\* _carregar_mapeamentos(): the dict and whether a warning was logged
carregar_mapeamentos(arq) ==
    IF arq.estado = "ausente" THEN [dados |-> DictVazio, aviso |-> FALSE]
    ELSE IF arq.estado = "malformado" THEN [dados |-> DictVazio, aviso |-> TRUE]
    ELSE [dados |-> loads(arq.membros), aviso |-> FALSE]

\* the file never written
salvar_sem_escrever(d, arq, escrita) == [disco |-> arq, excecao |-> "nenhuma"]

\* salvar_mapeamentos(): MAPEAMENTOS_FILE after write_text and the exception
\* raised.  escrita is what the file system does: "ok", "falha_abrir" (open
\* fails, the file is untouched) or "falha_escrever" (the file was truncated
\* by open and the write fails)
salvar_mapeamentos(d, arq, escrita) ==
    CASE escrita = "ok" ->
            [disco |-> [estado |-> "json", membros |-> dumps(d)],
             excecao |-> "nenhuma"]
      [] escrita = "falha_abrir" -> [disco |-> arq, excecao |-> "OSError"]
      [] escrita = "falha_escrever" ->
            [disco |-> [estado |-> "malformado"], excecao |-> "OSError"]

\* self.salvar_mapeamentos() once the entry is in the dict
SalvarNovo(novo, arq, escrita) ==
    LET salvo == salvar_mapeamentos(novo, arq, escrita)
    IN  [mapeamentos |-> novo, disco |-> salvo.disco,
         excecao |-> salvo.excecao, registro |-> <<>>]

\* adicionar_mapeamento(termo, arquivo_rel): the dict, the file, the exception
\* that reaches the caller and what was logged
adicionar_mapeamento(d, arq, termo, arquivo_rel, escrita) ==
    SalvarNovo(DictSet(d, Preprocessado(termo), arquivo_rel), arq, escrita)

-----------------------------------------------------------------------------
(* MotorBusca.buscar *)

LIMITE_CANDIDATOS == 500
PONTUACAO_MINIMA == 3000

\* the shortcut taken without looking the key up in the index
AtalhoSemIndice(d, arqs, termo_norm) == termo_norm \in DOMAIN d

\* termo_norm in self.mapeamentos and self.mapeamentos[termo_norm] in self.arquivos
AtalhoValido(d, arqs, termo_norm) ==
    termo_norm \in DOMAIN d /\ d[termo_norm] \in Elementos(arqs)

\* the pre-filter, the fallback to the whole index and the cap
Candidatos(arqs, termo_norm, palavras) ==
    LET filtrados ==
            IF palavras # {}
            THEN SelectSeq(arqs, LAMBDA a : \E p \in palavras : Contem(lower(a), p))
            ELSE SelectSeq(arqs, LAMBDA a : Contem(lower(a), termo_norm))
        todos == IF filtrados = <<>> THEN arqs ELSE filtrados
    IN  IF Len(todos) > LIMITE_CANDIDATOS
        THEN SubSeq(todos, 1, LIMITE_CANDIDATOS) ELSE todos

RECURSIVE OrdenarCrescente(_)
\* the sort without reverse=True: stable, ascending
OrdenarCrescente(pares) ==
    IF pares = <<>> THEN <<>>
    ELSE LET r == OrdenarCrescente(SubSeq(pares, 1, Len(pares) - 1))
             x == pares[Len(pares)]
             k == Cardinality({i \in 1..Len(r) : r[i][2] <= x[2]})
         IN  SubSeq(r, 1, k) \o <<x>> \o SubSeq(r, k + 1, Len(r))

RECURSIVE Ordenar(_)
\* list.sort(key=score, reverse=True): stable, descending
Ordenar(pares) ==
    IF pares = <<>> THEN <<>>
    ELSE LET r == Ordenar(SubSeq(pares, 1, Len(pares) - 1))
             x == pares[Len(pares)]
             k == Cardinality({i \in 1..Len(r) : r[i][2] >= x[2]})
         IN  SubSeq(r, 1, k) \o <<x>> \o SubSeq(r, k + 1, Len(r))

\* resultados[:top_n], top_n >= 0
Truncar(s, n) == IF Len(s) > n THEN SubSeq(s, 1, n) ELSE s

\* the scored candidates that reach the threshold, sorted and cut
Resultados(candidatos, pontos, top_n) ==
    LET bons == SelectSeq([i \in 1..Len(candidatos) |-> i],
                          LAMBDA i : pontos[i] >= PONTUACAO_MINIMA)
    IN  Truncar(Ordenar([j \in 1..Len(bons) |->
                            <<candidatos[bons[j]], pontos[bons[j]]>>]), top_n)

BuscarCandidatos(termo, candidatos, top_n) ==
    [pares |-> Resultados(candidatos,
                   [i \in 1..Len(candidatos) |-> Pontuacao(termo, candidatos[i])],
                   top_n),
     pontuados |-> Len(candidatos)]

BuscarNormalizado(d, arqs, termo, termo_norm, top_n) ==
    IF AtalhoValido(d, arqs, termo_norm)
    THEN [pares |-> << <<d[termo_norm], PontuacaoMaxima>> >>, pontuados |-> 0]
    ELSE BuscarCandidatos(termo,
            Candidatos(arqs, termo_norm, extrair_palavras_chave(termo_norm)), top_n)

\* buscar(termo, top_n): the list returned and the number of candidates scored
buscar(d, arqs, termo, top_n) ==
    BuscarNormalizado(d, arqs, termo, Preprocessado(termo), top_n)

-----------------------------------------------------------------------------
(* The engine *)

\* MAPEAMENTOS_FILE before the first run: absent, damaged, or left by an
\* earlier run
DiscosIniciais ==
    {[estado |-> "ausente"], [estado |-> "malformado"],
     [estado |-> "json",
      membros |-> dumps(DictSet(DictSet(DictVazio, <<"a","r","r","o","z">>, <<"i","m","/","s","/","a","r","r","o","z",".","J","P","G">>),
                                <<"d","e">>, <<"e","x","/","a","r","r","o","z",".","p","n","g">>))]}

\* MotorBusca(): __init__
Construir ==
    /\ config' = Config_load(arq_config).config
    /\ arquivos' = <<>>
    /\ arquivos_completos' = DictVazio
    /\ mapeamentos' = carregar_mapeamentos(disco).dados
    /\ registro' = (IF Config_load(arq_config).aviso THEN <<"WARNING">> ELSE <<>>)
                   \o (IF carregar_mapeamentos(disco).aviso THEN <<"WARNING">> ELSE <<>>)

Init ==
    /\ arq_config \in ConfigsMotor
    /\ disco \in DiscosIniciais
    /\ config = Config_load(arq_config).config
    /\ arquivos = <<>>
    /\ arquivos_completos = DictVazio
    /\ mapeamentos = carregar_mapeamentos(disco).dados
    /\ registro = (IF Config_load(arq_config).aviso THEN <<"WARNING">> ELSE <<>>)
                  \o (IF carregar_mapeamentos(disco).aviso THEN <<"WARNING">> ELSE <<>>)
    /\ op = [nome |-> "init"]
    /\ retorno = <<>>
    /\ excecao = "nenhuma"
    /\ pontuados = 0
    /\ gravado = <<>>
    /\ entrada = <<>>
    /\ saida = <<>>
    /\ pc = "motor"

\* a new process: MotorBusca() again, over the files the last run left
Reiniciar ==
    /\ Construir
    /\ op' = [nome |-> "init"]
    /\ retorno' = <<>>
    /\ excecao' = "nenhuma"
    /\ pontuados' = 0
    /\ gravado' = IF gravado = <<>> THEN <<>> ELSE <<gravado[1], gravado[2], TRUE>>
    /\ UNCHANGED <<puroVars, arq_config, disco>>

\* carregar_imagens() over what the directories hold at that time
CarregarImagens ==
    /\ \E fs \in [Elementos(iterar_pastas(config)) -> ListagensPasta] :
          LET indice == carregar_imagens(config, fs)
          IN  /\ arquivos' = indice.arquivos
              /\ arquivos_completos' = indice.arquivos_completos
              /\ retorno' = Len(indice.arquivos)
              /\ op' = [nome |-> "carregar_imagens"]
    /\ registro' = <<"INFO">>
    /\ excecao' = "nenhuma"
    /\ pontuados' = 0
    /\ UNCHANGED <<puroVars, arq_config, disco, config, mapeamentos, gravado>>

\* adicionar_mapeamento(termo, arquivo_rel)
AdicionarMapeamento ==
    /\ \E termo \in TermosAdd, arquivo_rel \in ChavesAdd,
          escrita \in {"ok", "falha_abrir", "falha_escrever"} :
          \E r \in {adicionar_mapeamento(mapeamentos, disco, termo, arquivo_rel, escrita)} :
              /\ mapeamentos' = r.mapeamentos
              /\ disco' = r.disco
              /\ excecao' = r.excecao
              /\ registro' = r.registro
              /\ op' = [nome |-> "adicionar_mapeamento", termo |-> termo,
                        arquivo_rel |-> arquivo_rel, escrita |-> escrita]
              /\ gravado' = IF escrita = "ok"
                            THEN <<termo, arquivo_rel, FALSE>>
                            ELSE <<>>
    /\ retorno' = <<>>
    /\ pontuados' = 0
    /\ UNCHANGED <<puroVars, arq_config, config, arquivos, arquivos_completos>>

\* buscar(termo, top_n)
Buscar ==
    /\ \E termo \in TermosBusca, top_n \in 0..MaxTopN :
          \E r \in {buscar(mapeamentos, arquivos, termo, top_n)} :
              /\ retorno' = r.pares
              /\ pontuados' = r.pontuados
              /\ op' = [nome |-> "buscar", termo |-> termo, top_n |-> top_n]
    /\ registro' = <<>>
    /\ excecao' = "nenhuma"
    /\ UNCHANGED <<puroVars, arq_config, disco, config, arquivos,
                   arquivos_completos, mapeamentos, gravado>>

Next == Reiniciar \/ CarregarImagens \/ AdicionarMapeamento \/ Buscar

Spec == Init /\ [][Next]_vars

-----------------------------------------------------------------------------
(* Specifications of the pure functions: Init draws the arguments, one     *)
(* action applies the function                                             *)

MotorParado ==
    /\ arq_config = [estado |-> "ausente"]
    /\ disco = [estado |-> "ausente"]
    /\ config = ConfigPadrao
    /\ arquivos = <<>>
    /\ arquivos_completos = <<>>
    /\ mapeamentos = <<>>
    /\ op = [nome |-> "nenhuma"]
    /\ retorno = <<>>
    /\ excecao = "nenhuma"
    /\ registro = <<>>
    /\ pontuados = 0
    /\ gravado = <<>>

\* the sequences over alfabeto of length at most n
SeqsAte(alfabeto, n) == UNION {[1..k -> alfabeto] : k \in 0..n}

(* normalizar_texto *)

MaxLenTexto == 5
AlfabetoNorm == {"a", "K", "g", "5", " ", ".", ","}

InitNorm ==
    /\ entrada \in SeqsAte(AlfabetoNorm, MaxLenTexto)
    /\ saida = <<>>
    /\ pc = "inicio"
    /\ MotorParado

\* s1 = normalizar_texto(entrada)
Normalizar ==
    /\ pc = "inicio"
    /\ saida' = [s1 |-> normalizar_texto(entrada)]
    /\ pc' = "normalizado"
    /\ UNCHANGED <<entrada, motorVars>>

\* s2 = normalizar_texto(s1)
Renormalizar ==
    /\ pc = "normalizado"
    /\ saida' = [s1 |-> saida.s1, s2 |-> normalizar_texto(saida.s1)]
    /\ pc' = "renormalizado"
    /\ UNCHANGED <<entrada, motorVars>>

\* com = normalizar_texto(entrada + ext), ext with its period
NormalizarArquivo ==
    /\ pc = "inicio"
    /\ \E ext \in EXTENSOES_IMAGEM :
          saida' = [ext |-> ext,
                    sem |-> normalizar_texto(entrada),
                    com |-> normalizar_texto(entrada \o ext)]
    /\ pc' = "arquivo"
    /\ UNCHANGED <<entrada, motorVars>>

NextNorm == Normalizar \/ Renormalizar \/ NormalizarArquivo

SpecNorm == InitNorm /\ [][NextNorm]_vars

(* calcular_pontuacao *)

MaxLenPontuacao == 3
AlfabetoPontuacao == {"d", "e", " "}
TextosFixos ==
    {<<"a","r","r","o","z">>,
     <<"A","r","r","o","z"," ","5","k","g">>,
     <<"A","R","R","O","Z",".">>,
     <<"d","e">>,
     <<"d","a">>,
     <<"a">>,
     <<"l","i","n","g"," ","t","e","m","p">>,
     <<"l","i","n","g","u","i","c","a"," ","t","e","m","p","e","r","a","d","o">>,
     <<"p","e","p","e","i","n","o">>,
     <<"p","e","p","i","n","o">>,
     <<"i","m","/","a","r","r","o","z",".","p","n","g">>,
     <<"s","e","m"," ","s","a","l">>,
     <<"s","a","l">>,
     <<"a","r","r","o","z"," ","s","e","m"," ","s","a","l">>}
TextosPontuacao == SeqsAte(AlfabetoPontuacao, MaxLenPontuacao) \cup TextosFixos

InitPontuacao ==
    /\ entrada \in [texto_busca : TextosPontuacao, texto_arquivo : TextosPontuacao]
    /\ saida = <<>>
    /\ pc = "inicio"
    /\ MotorParado

Pontuar ==
    /\ pc = "inicio"
    /\ saida' = [pontuacao |->
                    calcular_pontuacao(entrada.texto_busca, entrada.texto_arquivo)]
    /\ pc' = "pontuado"
    /\ UNCHANGED <<entrada, motorVars>>

NextPontuacao == Pontuar

SpecPontuacao == InitPontuacao /\ [][NextPontuacao]_vars

(* Config.load *)

\* what the stored record may hold for each member; "extra" is no field
ValoresMembro(f) ==
    CASE f = "pasta_imagens" -> <<ConfigPadrao.pasta_imagens, <<"/","a","/","i","m">>>>
      [] f = "confianca_alta" -> <<80, 90>>
      [] f = "confianca_media" -> <<55, 40>>
      [] f = "remove_bg_key" -> << <<>>, <<"k">> >>
      [] f = "pastas_extras" -> << <<>>, << <<"/","b","/","i","m">> >> >>
      [] f = "extra" -> <<1, 2>>

MEMBROS == CAMPOS \cup {"extra"}

\* the JSON objects: each member absent (0) or present with one of its values
ObjetosConfig ==
    {[f \in {g \in MEMBROS : e[g] > 0} |-> ValoresMembro(f)[e[f]]] :
        e \in [MEMBROS -> 0..2]}

ArquivosConfig ==
    {[estado |-> "ausente"], [estado |-> "malformado"],
     [estado |-> "json", tipo |-> "lista"]}
    \cup {[estado |-> "json", tipo |-> "objeto", membros |-> o] : o \in ObjetosConfig}

InitConfig ==
    /\ arq_config \in ArquivosConfig
    /\ entrada = <<>>
    /\ saida = <<>>
    /\ pc = "inicio"
    /\ disco = [estado |-> "ausente"]
    /\ config = ConfigPadrao
    /\ arquivos = <<>>
    /\ arquivos_completos = <<>>
    /\ mapeamentos = <<>>
    /\ op = [nome |-> "nenhuma"]
    /\ retorno = <<>>
    /\ excecao = "nenhuma"
    /\ registro = <<>>
    /\ pontuados = 0
    /\ gravado = <<>>

\* config = Config.load(CONFIG_FILE)
CarregarConfig ==
    /\ pc = "inicio"
    /\ LET r == Config_load(arq_config)
       IN  /\ config' = r.config
           /\ registro' = IF r.aviso THEN <<"WARNING">> ELSE <<>>
    /\ pc' = "carregado"
    /\ excecao' = "nenhuma"
    /\ UNCHANGED <<entrada, saida, arq_config, disco, arquivos,
                   arquivos_completos, mapeamentos, op, retorno, pontuados,
                   gravado>>

NextConfig == CarregarConfig

SpecConfig == InitConfig /\ [][NextConfig]_vars

(* the classification *)

\* the thresholds are percentages
MaxConfianca == 100

\* the scores next to a threshold, and the ends of the range
PontuacoesPerto(alta, media) ==
    {p \in {0, 1, PontuacaoMaxima} \cup {100 * t + d : t \in {alta, media}, d \in -1..1} :
        p >= 0 /\ p <= PontuacaoMaxima}

InitClassificacao ==
    /\ \E alta \in 0..MaxConfianca, media \in 0..MaxConfianca :
          \E p \in PontuacoesPerto(alta, media) :
              entrada = [pontuacao |-> p,
                         config |-> [ConfigPadrao EXCEPT !.confianca_alta = alta,
                                                         !.confianca_media = media]]
    /\ saida = <<>>
    /\ pc = "inicio"
    /\ MotorParado

ClassificarPontuacao ==
    /\ pc = "inicio"
    /\ saida' = [status |-> Classificar(entrada.pontuacao, entrada.config)]
    /\ pc' = "classificado"
    /\ UNCHANGED <<entrada, motorVars>>

NextClassificacao == ClassificarPontuacao

SpecClassificacao == InitClassificacao /\ [][NextClassificacao]_vars

-----------------------------------------------------------------------------
(* The claims *)

\* the term of the last buscar, preprocessed
TermoNorm == Preprocessado(op.termo)

Obsoleto ==
    /\ op.nome = "buscar"
    /\ TermoNorm \in DOMAIN mapeamentos
    /\ mapeamentos[TermoNorm] \notin Elementos(arquivos)

\* the candidates of the last buscar as the claims describe them: the keys
\* of the index that hold a keyword of the term (the preprocessed term, when
\* it has no keyword), in index order, or the whole index when there is
\* none; of these the first LIMITE_CANDIDATOS
PreFiltro(a) ==
    IF extrair_palavras_chave(TermoNorm) # {}
    THEN \E p \in extrair_palavras_chave(TermoNorm) : Contem(lower(a), p)
    ELSE Contem(lower(a), TermoNorm)

PrimeirosCandidatos ==
    LET base == IF \E i \in 1..Len(arquivos) : PreFiltro(arquivos[i])
                THEN SelectSeq(arquivos, PreFiltro) ELSE arquivos
    IN  SubSeq(base, 1, IF Len(base) < LIMITE_CANDIDATOS THEN Len(base)
                        ELSE LIMITE_CANDIDATOS)

\* s is t with some elements left out
Subsequencia(s, t) ==
    \E f \in [1..Len(s) -> 1..Len(t)] :
        /\ \A i \in 1..Len(s) : s[i] = t[f[i]]
        /\ \A i, j \in 1..Len(s) : i < j => f[i] < f[j]

\* the keys of the pairs of score v, in the order of the pairs
ChavesDePontuacao(pares, v) ==
    LET sel == SelectSeq(pares, LAMBDA par : par[2] = v)
    IN  [i \in 1..Len(sel) |-> sel[i][1]]

\* C1: when the preprocessed term is a key of the learned mappings and its
\* target is not in the index, buscar does not return the shortcut: it
\* scores the candidates, so every key it returns is in the index (and the
\* target is not among them)
C1_MapeamentoObsoleto ==
    Obsoleto =>
        /\ retorno # << <<mapeamentos[TermoNorm], PontuacaoMaxima>> >>
        /\ pontuados = Len(PrimeirosCandidatos)
        /\ \A i \in 1..Len(retorno) : retorno[i][1] \in Elementos(arquivos)

\* a stale mapping, and the scoring finds a file of the index
C1_Testemunha ==
    /\ Obsoleto
    /\ retorno # <<>>
    /\ retorno[1][1] \in Elementos(arquivos)

\* the last add was saved, the engine was built again from the files, and
\* the last call is a buscar of a term with the same preprocessed form
\* while the key is indexed
RecarregadoEIndexado ==
    /\ op.nome = "buscar"
    /\ gravado # <<>>
    /\ gravado[3]
    /\ preprocessar(op.termo) = preprocessar(gravado[1])
    /\ gravado[2] \in Elementos(arquivos)

\* C2: after adicionar_mapeamento(term, key) succeeded, an engine that
\* reloads the mappings from storage and whose index holds key returns
\* exactly [(key, 100.0)] for every term of the same preprocessed form,
\* and scores no candidate
C2_IdaEVolta ==
    RecarregadoEIndexado =>
        /\ retorno = << <<gravado[2], PontuacaoMaxima>> >>
        /\ pontuados = 0

\* such a buscar, of a term written differently from every term added
C2_Testemunha ==
    /\ RecarregadoEIndexado
    /\ op.termo \notin TermosAdd
    /\ retorno = << <<gravado[2], PontuacaoMaxima>> >>

\* C3: when the write of the storage fails in adicionar_mapeamento, the
\* failure is logged and does not reach the caller, and the entry stays in
\* the mappings in memory
C3_FalhaNaoPropagada ==
    (op.nome = "adicionar_mapeamento" /\ op.escrita # "ok") =>
        /\ excecao = "nenhuma"
        /\ registro # <<>>
        /\ preprocessar(op.termo) \in DOMAIN mapeamentos
        /\ mapeamentos[preprocessar(op.termo)] = op.arquivo_rel

\* C8: after carregar_imagens the key list has no duplicate, holds exactly
\* the keys of the key -> path map, and the count returned is the number
\* of key -> path entries
C8_ChavesUnicas ==
    op.nome = "carregar_imagens" =>
        /\ \A i, j \in 1..Len(arquivos) : arquivos[i] = arquivos[j] => i = j
        /\ Elementos(arquivos) = DOMAIN arquivos_completos
        /\ retorno = Cardinality(DOMAIN arquivos_completos)

NaoResolvido ==
    /\ op.nome = "buscar"
    /\ ~(/\ TermoNorm \in DOMAIN mapeamentos
         /\ mapeamentos[TermoNorm] \in Elementos(arquivos))

MesmoPreprocessado ==
    /\ pc = "pontuado"
    /\ preprocessar(entrada.texto_busca) = preprocessar(entrada.texto_arquivo)

\* C4 as stated: whenever the two preprocessed strings are equal the score
\* is exactly 100.0
C4_IguaisDaoCem == MesmoPreprocessado => saida.pontuacao = PontuacaoMaxima

\* C4 as amended: when the two preprocessed strings are equal the score is
\* exactly 100.0 if the string has a keyword, and 0.0 if it has none
C4_IguaisComPalavras ==
    MesmoPreprocessado =>
        saida.pontuacao =
            IF extrair_palavras_chave(preprocessar(entrada.texto_busca)) # {}
            THEN PontuacaoMaxima ELSE 0

\* two different texts of the same preprocessed form that has a keyword
C4_Testemunha ==
    /\ MesmoPreprocessado
    /\ entrada.texto_busca # entrada.texto_arquivo
    /\ saida.pontuacao = PontuacaoMaxima

\* the claim's intervals for the four statuses
IntervalosDaClassificacao(p, alta, media, status) ==
    /\ status \in {"OK", "REVISAR", "VERIFICAR", "NAO_ENCONTRADO"}
    /\ (status = "OK") = (p >= 100 * alta)
    /\ (status = "REVISAR") = (100 * media <= p /\ p < 100 * alta)
    /\ (status = "VERIFICAR") = (0 < p /\ p < 100 * media)
    /\ (status = "NAO_ENCONTRADO") = (p = 0)

\* C5 as stated: for any two thresholds each score of [0, 100] gets the one
\* status of its interval
C5_Particao ==
    pc = "classificado" =>
        IntervalosDaClassificacao(entrada.pontuacao, entrada.config.confianca_alta,
                                  entrada.config.confianca_media, saida.status)

\* C5 as amended: each score gets exactly one status, the first that
\* applies of OK (score >= high), REVISAR (score >= medium), VERIFICAR
\* (score > 0), NAO_ENCONTRADO; these are the claim's intervals when
\* 0 < medium <= high
C5_PrimeiroQueSeAplica ==
    pc = "classificado" =>
        LET p == entrada.pontuacao
            alta == entrada.config.confianca_alta
            media == entrada.config.confianca_media
        IN  /\ saida.status \in {"OK", "REVISAR", "VERIFICAR", "NAO_ENCONTRADO"}
            /\ (saida.status = "OK") = (p >= 100 * alta)
            /\ (saida.status = "REVISAR") = (p < 100 * alta /\ p >= 100 * media)
            /\ (saida.status = "VERIFICAR") =
                   (p < 100 * alta /\ p < 100 * media /\ p > 0)
            /\ (saida.status = "NAO_ENCONTRADO") =
                   (p < 100 * alta /\ p < 100 * media /\ p <= 0)
            /\ (0 < media /\ media <= alta) =>
                   IntervalosDaClassificacao(p, alta, media, saida.status)

\* a score equal to the high threshold, above the medium one, is OK
C5_Testemunha ==
    /\ pc = "classificado"
    /\ 0 < entrada.config.confianca_media
    /\ entrada.config.confianca_media < entrada.config.confianca_alta
    /\ entrada.pontuacao = 100 * entrada.config.confianca_alta
    /\ saida.status = "OK"

\* C6: normalizar_texto is idempotent
C6_Idempotente == pc = "renormalizado" => saida.s2 = saida.s1

\* C7: normalizar_texto(name + "." + ext) = normalizar_texto(name) for each
\* recognized image extension (here for the names that do not normalize to
\* the empty string)
C7_ExtensaoRemovida ==
    (pc = "arquivo" /\ saida.sem # <<>>) => saida.com = saida.sem

\* C9: Config.load gives the defaults for a missing or malformed file and,
\* for a stored record, the stored value of each known field present and
\* the default of each one absent, whatever unknown fields it also holds
C9_Mesclagem ==
    pc = "carregado" =>
        IF arq_config.estado = "json" /\ arq_config.tipo = "objeto"
        THEN \A f \in CAMPOS :
                config[f] = IF f \in DOMAIN arq_config.membros
                            THEN arq_config.membros[f] ELSE ConfigPadrao[f]
        ELSE config = ConfigPadrao

=============================================================================
